---------------------------- MODULE Spec2Model ----------------------------
(***************************************************************************)
(* Model of the resume pipeline: ResumeClassifier (PII redaction and top-k *)
(* classification, src/utils/resume_utils.py) and SkillsExtractor          *)
(* (src/utils/skills_utils.py).                                            *)
(*                                                                         *)
(* Text is a sequence of one-character strings.  Regular expressions are   *)
(* abstract syntax trees matched by a backtracking matcher with the        *)
(* priorities of Python's re module (leftmost match, greedy quantifiers,   *)
(* ordered alternation).                                                   *)
(***************************************************************************)
EXTENDS Integers, Sequences, FiniteSets, TLC

-----------------------------------------------------------------------------
(* Characters                                                              *)

Digit == {"0", "1", "2", "3", "4", "5", "6", "7", "8", "9"}

UpperSeq == <<"A", "B", "C", "D", "E", "F", "G", "H", "I", "J", "K", "L", "M",
              "N", "O", "P", "Q", "R", "S", "T", "U", "V", "W", "X", "Y", "Z">>

LowerSeq == <<"a", "b", "c", "d", "e", "f", "g", "h", "i", "j", "k", "l", "m",
              "n", "o", "p", "q", "r", "s", "t", "u", "v", "w", "x", "y", "z">>

Upper == {UpperSeq[i] : i \in 1..26}

Lower == {LowerSeq[i] : i \in 1..26}

Letter == Upper \cup Lower

\* \s of the re module, restricted to ASCII
Space == {" ", "\t", "\n", "\r", "\f"}

\* \w of the re module, restricted to ASCII
WordChar == Letter \cup Digit \cup {"_"}

\* str.lower() on one character
ToLower(c) ==
    IF c \in Upper THEN LowerSeq[CHOOSE i \in 1..26 : UpperSeq[i] = c] ELSE c

\* str.upper() on one character
ToUpper(c) ==
    IF c \in Lower THEN UpperSeq[CHOOSE i \in 1..26 : LowerSeq[i] = c] ELSE c

\* str.lower()
LowerStr(s) == [i \in 1..Len(s) |-> ToLower(s[i])]

-----------------------------------------------------------------------------
(* Strings                                                                 *)

\* s[i:j] of Python with 0-based offsets i <= j
Slice(s, i, j) == SubSeq(s, i + 1, j)

\* sub in s
Contains(s, sub) ==
    \E i \in 0..(Len(s) - Len(sub)) : SubSeq(s, i + 1, i + Len(sub)) = sub

RECURSIVE LStrip(_)
LStrip(s) == IF s # <<>> /\ Head(s) \in Space THEN LStrip(Tail(s)) ELSE s

RECURSIVE RStrip(_)
RStrip(s) ==
    IF s # <<>> /\ s[Len(s)] \in Space THEN RStrip(SubSeq(s, 1, Len(s) - 1)) ELSE s

\* str.strip()
Strip(s) == RStrip(LStrip(s))

RECURSIVE Concat(_)
Concat(ss) == IF ss = <<>> THEN <<>> ELSE Head(ss) \o Concat(Tail(ss))

-----------------------------------------------------------------------------
(* Regular expressions                                                     *)

\* Nodes of a pattern: [...] is Set, concatenation Cat, a|b Alt
Set(cs) == [t |-> "set", s |-> cs]

Cat(xs) == [t |-> "cat", xs |-> xs]
Alt(xs) == [t |-> "alt", xs |-> xs]
\* x{lo,hi}, greedy; hi = -1 is unbounded
Rep(x, lo, hi) == [t |-> "rep", x |-> x, lo |-> lo, hi |-> hi]
\* x{lo,hi}?, lazy
Lazy(x, lo, hi) == [t |-> "lazy", x |-> x, lo |-> lo, hi |-> hi]
Opt(x) == Rep(x, 0, 1)
Star(x) == Rep(x, 0, -1)
Plus(x) == Rep(x, 1, -1)
\* \b
WB == [t |-> "wb"]
\* (?!x)
NLA(x) == [t |-> "nla", x |-> x]
Ch(c) == Set({c})
\* a literal string
Lit(s) == Cat([i \in 1..Len(s) |-> Ch(s[i])])

\* re.IGNORECASE on a character set
InSet(c, cs, ic) == c \in cs \/ (ic /\ (ToLower(c) \in cs \/ ToUpper(c) \in cs))

IsWordAt(s, i) == i >= 1 /\ i <= Len(s) /\ s[i] \in WordChar

Dec(n) == IF n.hi = -1 THEN [n EXCEPT !.lo = IF n.lo > 0 THEN n.lo - 1 ELSE 0]
          ELSE [n EXCEPT !.lo = IF n.lo > 0 THEN n.lo - 1 ELSE 0, !.hi = n.hi - 1]

\* The backtracking matcher: st is the sequence of nodes still to be matched
\* from position i (1-based index of the next character).  The value is the
\* position after the match the re module finds, 0 when there is none.
RECURSIVE MatchAt(_, _, _, _)
MatchAt(s, ic, st, i) ==
    IF Len(st) = 0 THEN i
    ELSE LET n == Head(st)
             rest == Tail(st)
         IN CASE n.t = "set" ->
                    IF i <= Len(s) /\ InSet(s[i], n.s, ic)
                    THEN MatchAt(s, ic, rest, i + 1) ELSE 0
              [] n.t = "cat" -> MatchAt(s, ic, n.xs \o rest, i)
              [] n.t = "alt" ->
                    IF Len(n.xs) = 0 THEN 0
                    ELSE LET first == MatchAt(s, ic, <<Head(n.xs)>> \o rest, i)
                         IN IF first # 0 THEN first
                            ELSE MatchAt(s, ic, <<Alt(Tail(n.xs))>> \o rest, i)
              [] n.t = "rep" ->
                    LET more == IF n.hi = 0 THEN 0
                                ELSE MatchAt(s, ic, <<n.x, Dec(n)>> \o rest, i)
                    IN IF more # 0 THEN more
                       ELSE IF n.lo = 0 THEN MatchAt(s, ic, rest, i) ELSE 0
              [] n.t = "lazy" ->
                    LET none == IF n.lo = 0 THEN MatchAt(s, ic, rest, i) ELSE 0
                    IN IF none # 0 THEN none
                       ELSE IF n.hi = 0 THEN 0
                       ELSE MatchAt(s, ic, <<n.x, Dec(n)>> \o rest, i)
              [] n.t = "wb" ->
                    IF IsWordAt(s, i - 1) # IsWordAt(s, i)
                    THEN MatchAt(s, ic, rest, i) ELSE 0
              [] n.t = "nla" ->
                    IF MatchAt(s, ic, <<n.x>>, i) = 0
                    THEN MatchAt(s, ic, rest, i) ELSE 0

\* Pattern.sub(repl, s): every non-overlapping match, leftmost first, is
\* replaced by repl.  p is [re |-> node, ic |-> flag].
RECURSIVE SubFrom(_, _, _, _)
SubFrom(p, repl, s, i) ==
    IF i > Len(s) THEN <<>>
    ELSE LET e == MatchAt(s, p.ic, <<p.re>>, i)
         IN IF e = 0 THEN <<s[i]>> \o SubFrom(p, repl, s, i + 1)
            ELSE IF e = i THEN repl \o <<s[i]>> \o SubFrom(p, repl, s, i + 1)
            ELSE repl \o SubFrom(p, repl, s, e)

ReSub(p, repl, s) == SubFrom(p, repl, s, 1)

\* Pattern.search(s) is not None
ReSearch(p, s) == \E i \in 1..(Len(s) + 1) : MatchAt(s, p.ic, <<p.re>>, i) # 0

-----------------------------------------------------------------------------
(* The PII patterns of ResumeClassifier                                    *)

\* \d
D == Set(Digit)

\* \s
S == Set(Space)

\* [A-Z]
AZ == Set(Upper)

\* [a-zA-Z]
AZaz == Set(Letter)

\* [\s\-.]?
Sep == Opt(Set(Space \cup {"-", "."}))

StreetSuffix ==
    Alt(<<Lit(<<"S", "t">>), Lit(<<"S", "t", "r", "e", "e", "t">>),
          Lit(<<"A", "v", "e">>), Lit(<<"A", "v", "e", "n", "u", "e">>),
          Lit(<<"R", "d">>), Lit(<<"R", "o", "a", "d">>),
          Lit(<<"B", "l", "v", "d">>),
          Lit(<<"B", "o", "u", "l", "e", "v", "a", "r", "d">>),
          Lit(<<"D", "r">>), Lit(<<"D", "r", "i", "v", "e">>),
          Lit(<<"L", "n">>), Lit(<<"L", "a", "n", "e">>),
          Lit(<<"W", "a", "y">>),
          Lit(<<"C", "t">>), Lit(<<"C", "o", "u", "r", "t">>),
          Lit(<<"P", "l">>), Lit(<<"P", "l", "a", "c", "e">>),
          Lit(<<"P", "k", "w", "y">>),
          Lit(<<"P", "a", "r", "k", "w", "a", "y">>),
          Lit(<<"H", "w", "y">>),
          Lit(<<"H", "i", "g", "h", "w", "a", "y">>),
          Lit(<<"C", "i", "r">>), Lit(<<"C", "i", "r", "c", "l", "e">>),
          Lit(<<"T", "e", "r", "r", "a", "c", "e">>),
          Lit(<<"T", "e", "r">>)>>)

UnitWord ==
    Alt(<<Lit(<<"A", "p", "t">>),
          Lit(<<"A", "p", "a", "r", "t", "m", "e", "n", "t">>),
          Lit(<<"S", "u", "i", "t", "e">>), Lit(<<"S", "t", "e">>),
          Lit(<<"U", "n", "i", "t">>), Lit(<<"F", "l">>),
          Lit(<<"F", "l", "o", "o", "r">>), Ch("#")>>)

\* [A-Z][a-zA-Z]+
NameWord == Cat(<<AZ, Plus(AZaz)>>)

AddressRe ==
    Cat(<<WB, Rep(D, 1, 3), NLA(D), Plus(S), NameWord,
          Rep(Cat(<<Plus(S), NameWord>>), 0, 3),
          Opt(Cat(<<Plus(S), StreetSuffix, Opt(Ch("."))>>)),
          Opt(Cat(<<Plus(Set(Space \cup {","})), UnitWord, Star(S),
                    Plus(Set(WordChar \cup {"-"}))>>))>>)

PhoneRe ==
    Alt(<<Cat(<<Alt(<<Ch("+"), Lit(<<"0", "0">>)>>), Rep(D, 1, 3), Sep,
                Opt(Cat(<<Opt(Ch("(")), Rep(D, 1, 4), Opt(Ch(")")), Sep>>)),
                Rep(D, 1, 4), Sep, Rep(D, 1, 4), Sep, Rep(D, 1, 9)>>),
          Cat(<<Opt(Ch("(")), Rep(D, 3, 3), Opt(Ch(")")), Sep, Rep(D, 3, 3),
                Sep, Rep(D, 4, 4)>>),
          Cat(<<Rep(D, 5, 5), Sep, Rep(D, 3, 3), Sep, Rep(D, 2, 3)>>),
          Cat(<<Ch("/"), Cat(<<Rep(Ch("+"), 0, 1), Plus(D)>>),
                Alt(<<Plus(S), Ch("-")>>), Rep(Ch("("), 0, 1), Rep(D, 1, 3),
                Rep(Ch("("), 0, 1),
                Rep(Cat(<<Alt(<<Star(S), Ch("-"), Ch("(")>>), Rep(D, 2, 5),
                          Rep(Ch(")"), 0, 1), Lazy(S, 0, -1)>>), 1, 3),
                Ch("/")>>)>>)

ZipRe ==
    Alt(<<Cat(<<WB, Rep(D, 5, 5), Opt(Cat(<<Ch("-"), Rep(D, 4, 4)>>)), WB>>),
          Cat(<<WB, Rep(D, 6, 6), WB>>)>>)

PoBoxRe ==
    Cat(<<WB, Ch("P"), Opt(Ch(".")), Star(S), Ch("O"), Opt(Ch(".")), Star(S),
          Lit(<<"B", "o", "x">>), Plus(S), Plus(D), WB>>)

EmailRe ==
    Cat(<<WB, Plus(Set(Letter \cup Digit \cup {".", "_", "%", "+", "-"})),
          Ch("@"), Plus(Set(Letter \cup Digit \cup {".", "-"})), Ch("."),
          Rep(Set(Letter), 2, -1), WB>>)

\* self.pii_patterns: a dict, iterated in insertion order; name is the key,
\* label its characters
pii_patterns ==
    <<[name |-> "ADDRESS", label |-> <<"A", "D", "D", "R", "E", "S", "S">>,
       re |-> AddressRe, ic |-> TRUE],
      [name |-> "PHONE", label |-> <<"P", "H", "O", "N", "E">>,
       re |-> PhoneRe, ic |-> TRUE],
      [name |-> "ZIP", label |-> <<"Z", "I", "P">>,
       re |-> ZipRe, ic |-> FALSE],
      [name |-> "POBOX", label |-> <<"P", "O", "B", "O", "X">>,
       re |-> PoBoxRe, ic |-> TRUE],
      [name |-> "EMAIL", label |-> <<"E", "M", "A", "I", "L">>,
       re |-> EmailRe, ic |-> FALSE]>>

\* f'[{label}]'
Token(label) == <<"[">> \o label \o <<"]">>

\* re.sub(r'[^a-zA-Z0-9\s\.\,\-\/\(\)\@\+]', '', resume)
AllowedChar == Letter \cup Digit \cup Space \cup {".", ",", "-", "/", "(", ")", "@", "+"}

\* StripDisallowed letting square brackets through
StripDisallowed_brackets(s) ==
    SelectSeq(s, LAMBDA c : c \in AllowedChar \cup {"[", "]"})

StripDisallowed(s) == SelectSeq(s, LAMBDA c : c \in AllowedChar)

\* CollapseSpace without the strip()
CollapseSpace_unstripped(s) == ReSub([re |-> Plus(S), ic |-> FALSE], <<" ">>, s)

\* re.sub(r'\s+', ' ', text).strip()
CollapseSpace(s) ==
    Strip(ReSub([re |-> Plus(S), ic |-> FALSE], <<" ">>, s))

\* ApplyRules taking the rules last to first
RECURSIVE ApplyRules_reversed(_, _)
ApplyRules_reversed(rules, text) ==
    IF rules = <<>> THEN text
    ELSE ReSub(Head(rules), Token(Head(rules).label),
               ApplyRules_reversed(Tail(rules), text))

\* for label, pattern in self.pii_patterns.items(): text = pattern.sub(...)
RECURSIVE ApplyRules(_, _)
ApplyRules(rules, text) ==
    IF rules = <<>> THEN text
    ELSE ApplyRules(Tail(rules),
                    ReSub(Head(rules), Token(Head(rules).label), text))

\* clean_resume up to the call of the language engine
RegexClean(resume) == ApplyRules(pii_patterns, CollapseSpace(StripDisallowed(resume)))

-----------------------------------------------------------------------------
(* The language engine                                                     *)

\* nlp.get_pipe("ner").labels
NerLabels == {"PERSON", "ORG", "GPE", "LOC"}

\* The labels the engine is let to put on the spans it returns
EmittedLabels == {"PERSON", "ORG"}

\* label_ as text
LabelText(l) ==
    CASE l = "PERSON" -> <<"P", "E", "R", "S", "O", "N">>
      [] l = "ORG" -> <<"O", "R", "G">>
      [] l = "GPE" -> <<"G", "P", "E">>
      [] l = "LOC" -> <<"L", "O", "C">>

MaxEnts == 1

\* Offsets where an entity may start and end: the edges of the words of text
EntStarts(text) ==
    {i \in 0..(Len(text) - 1) :
        text[i + 1] \notin Space /\ (i = 0 \/ text[i] \in Space)}

EntEnds(text) ==
    {j \in 1..Len(text) :
        text[j] \notin Space /\ (j = Len(text) \/ text[j + 1] \in Space)}

EntSpans(text) ==
    {[start_char |-> i, end_char |-> j, label_ |-> l] :
        i \in EntStarts(text), j \in EntEnds(text), l \in EmittedLabels}

\* doc.ents: what the engine may answer for text, at most n spans in order
\* of offset that do not overlap
DocEntsUpTo(text, n) ==
    LET spans == {sp \in EntSpans(text) : sp.start_char < sp.end_char}
    IN {e \in UNION {[1..m -> spans] : m \in 0..n} :
          \A k \in 1..(Len(e) - 1) : e[k].end_char <= e[k + 1].start_char}

DocEnts(text) == DocEntsUpTo(text, MaxEnts)

-----------------------------------------------------------------------------
(* ResumeClassifier.clean_resume                                           *)

\* A Python value passed as an argument: a str or something else
StrArg(s) == [type |-> "str", val |-> s]

OtherArg(t) == [type |-> t, val |-> <<>>]

NoResult == [type |-> "none", val |-> <<>>]

\* A raised exception: its class, its message and the bound the message names
Err(type, msg, bound) == [type |-> type, msg |-> msg, bound |-> bound]

NoError == Err("none", "", 0)

\* EntityPass without the test of the label
RECURSIVE EntityPass_unfiltered(_, _, _, _)
EntityPass_unfiltered(entities, text, ents, k) ==
    IF k = 0 THEN text
    ELSE LET ent == ents[k]
         IN EntityPass_unfiltered(entities,
                Slice(text, 0, ent.start_char) \o Token(LabelText(ent.label_))
                    \o Slice(text, ent.end_char, Len(text)),
                ents, k - 1)

\* text[i:j] with the offsets cut to the length of the text, as Python does
Clip(s, i, j) ==
    SubSeq(s, (IF i > Len(s) THEN Len(s) ELSE i) + 1, IF j > Len(s) THEN Len(s) ELSE j)

\* EntityPass taking the entities leftmost first
RECURSIVE EntityPass_forward(_, _, _, _)
EntityPass_forward(entities, text, ents, k) ==
    IF k = 0 THEN text
    ELSE LET ent == ents[Len(ents) - k + 1]
             next == IF \E n \in 1..Len(entities) : entities[n] = ent.label_
                     THEN Clip(text, 0, ent.start_char)
                            \o Token(LabelText(ent.label_))
                            \o Clip(text, ent.end_char, Len(text))
                     ELSE text
         IN EntityPass_forward(entities, next, ents, k - 1)

\* for ent in reversed(doc.ents): if ent.label_ in self.entities: splice
RECURSIVE EntityPass(_, _, _, _)
EntityPass(entities, text, ents, k) ==
    IF k = 0 THEN text
    ELSE LET ent == ents[k]
             next == IF \E n \in 1..Len(entities) : entities[n] = ent.label_
                     THEN Slice(text, 0, ent.start_char)
                            \o Token(LabelText(ent.label_))
                            \o Slice(text, ent.end_char, Len(text))
                     ELSE text
         IN EntityPass(entities, next, ents, k - 1)

\* The names of the steps of clean_resume, in the order the code runs them
RuleSteps == [n \in 1..Len(pii_patterns) |-> pii_patterns[n].name]

\* clean_pre testing the text for emptiness without trimming it
clean_pre_untrimmed(resume) ==
    IF resume.type # "str"
    THEN [err |-> Err("TypeError", "Expected str", 0), text |-> <<>>,
          steps |-> <<>>]
    ELSE IF resume.val = <<>>
    THEN [err |-> Err("ValueError", "Resume text is empty.", 0),
          text |-> <<>>, steps |-> <<>>]
    ELSE [err |-> NoError, text |-> RegexClean(resume.val),
          steps |-> <<"strip", "collapse">> \o RuleSteps]

\* clean_resume down to the call of the engine: the error raised, if any,
\* the text handed to the engine and the steps that ran
clean_pre(resume) ==
    IF resume.type # "str"
    THEN [err |-> Err("TypeError", "Expected str", 0), text |-> <<>>,
          steps |-> <<>>]
    ELSE IF Strip(resume.val) = <<>>
    THEN [err |-> Err("ValueError", "Resume text is empty.", 0),
          text |-> <<>>, steps |-> <<>>]
    ELSE [err |-> NoError, text |-> RegexClean(resume.val),
          steps |-> <<"strip", "collapse">> \o RuleSteps]

\* clean_resume from the engine's answer on
clean_post(entities, pre, ents) ==
    IF pre.err # NoError
    THEN [err |-> pre.err, out |-> NoResult, steps |-> pre.steps,
          ents |-> <<>>, nlp |-> <<>>, encode |-> <<>>, decision |-> 0]
    ELSE [err |-> NoError,
          out |-> StrArg(EntityPass(entities, pre.text, ents, Len(ents))),
          steps |-> pre.steps \o <<"nlp", "entities">>,
          ents |-> ents, nlp |-> <<pre.text>>, encode |-> <<>>,
          decision |-> 0]

-----------------------------------------------------------------------------
(* ResumeClassifier.classify_resume                                        *)

\* self.model.classes_
classes_ == <<"Technology", "Engineering", "Finance & Accounting">>

n_classes == Len(classes_)

\* What np.argsort(proba) may return: the index orders that sort proba
\* ascending (the order of equal margins is left to the sorting routine)
Argsorts(p) ==
    {perm \in [1..Len(p) -> 1..Len(p)] :
        /\ \A i, j \in 1..Len(p) : i # j => perm[i] # perm[j]
        /\ \A i \in 1..(Len(p) - 1) : p[perm[i]] <= p[perm[i + 1]]}

\* TopK without the reversal of the sorted indices
TopK_ascending(sorted, top_k) == [i \in 1..top_k |-> sorted[i]]

\* np.argsort(proba)[::-1][:top_k]
TopK(sorted, top_k) == [i \in 1..top_k |-> sorted[Len(sorted) + 1 - i]]

\* [self.model.classes_[i] for i in topk_indices]
Labels(indices) == [i \in 1..Len(indices) |-> classes_[indices[i]]]

\* TopKInRange with the upper bound excluded
TopKInRange_exclusive(k) == 1 <= k /\ k < n_classes

\* if not 1 <= top_k <= n_classes
TopKInRange(k) == 1 <= k /\ k <= n_classes

\* classify_resume embedding the text as given
classify_resume_raw(resume, k, clean, scores, sorted) ==
    IF ~TopKInRange(k)
    THEN [err |-> Err("ValueError", "top_k must be between", n_classes),
          out |-> NoResult, steps |-> <<>>, ents |-> <<>>, nlp |-> <<>>,
          encode |-> <<>>, decision |-> 0]
    ELSE IF clean.err # NoError
    THEN [err |-> clean.err, out |-> NoResult,
          steps |-> <<"clean_resume">> \o clean.steps, ents |-> clean.ents,
          nlp |-> clean.nlp, encode |-> <<>>, decision |-> 0]
    ELSE [err |-> NoError,
          out |-> [type |-> "list", val |-> Labels(TopK(sorted, k))],
          steps |-> <<"clean_resume">> \o clean.steps, ents |-> clean.ents,
          nlp |-> clean.nlp, encode |-> <<resume.val>>, decision |-> 1]

\* classify_resume(resume, k): clean is what the inner clean_resume(resume)
\* gave, scores the answer of decision_function, sorted that of argsort
classify_resume(resume, k, clean, scores, sorted) ==
    IF ~TopKInRange(k)
    THEN [err |-> Err("ValueError", "top_k must be between", n_classes),
          out |-> NoResult, steps |-> <<>>, ents |-> <<>>, nlp |-> <<>>,
          encode |-> <<>>, decision |-> 0]
    ELSE IF clean.err # NoError
    THEN [err |-> clean.err, out |-> NoResult,
          steps |-> <<"clean_resume">> \o clean.steps, ents |-> clean.ents,
          nlp |-> clean.nlp, encode |-> <<>>, decision |-> 0]
    ELSE [err |-> NoError,
          out |-> [type |-> "list", val |-> Labels(TopK(sorted, k))],
          steps |-> <<"clean_resume">> \o clean.steps, ents |-> clean.ents,
          nlp |-> clean.nlp, encode |-> <<clean.out.val>>, decision |-> 1]

-----------------------------------------------------------------------------
(* ResumeClassifier.__init__                                               *)

\* entities: list[str] = ["PERSON", "GPE", "LOC"]
DefaultEntities == <<"PERSON", "GPE", "LOC">>

NoInstance == [made |-> FALSE, entities |-> <<>>, pii_patterns |-> <<>>]

\* construct without the validation of the labels
construct_unchecked(load, given) ==
    LET entities == IF given = <<"default">> THEN DefaultEntities ELSE given
    IN IF load # "ok" THEN [err |-> Err(load, "", 0), self |-> NoInstance]
       ELSE [err |-> NoError,
             self |-> [made |-> TRUE, entities |-> entities,
                       pii_patterns |-> RuleSteps]]

\* load is the first of the three loads that fails, "ok" when none does;
\* given is the entities argument, <<"default">> standing for none passed
construct(load, given) ==
    LET entities == IF given = <<"default">> THEN DefaultEntities ELSE given
        invalid == SelectSeq(entities, LAMBDA e : e \notin NerLabels)
    IN IF load # "ok" THEN [err |-> Err(load, "", 0), self |-> NoInstance]
       ELSE IF invalid # <<>>
       THEN [err |-> Err("AssertionError", "Invalid NER labels", 0),
             self |-> NoInstance]
       ELSE [err |-> NoError,
             self |-> [made |-> TRUE, entities |-> entities,
                       pii_patterns |-> RuleSteps]]

\* The parameters of __init__
InitParams == {"model_dir", "nlp_model", "embedding_model", "entities"}

\* The loads __init__ has made when load is the first that fails
LoadsMade(load) ==
    CASE load = "FileNotFoundError" -> <<>>
      [] load = "OSError" -> <<"joblib.load">>
      [] load = "ValueError" -> <<"joblib.load", "spacy.load">>
      [] OTHER -> <<"joblib.load", "spacy.load", "SentenceTransformer">>

\* ResumeClassifier(**kw): kw the names of the keyword arguments passed, an
\* object already loaded for each but entities, which is given; load as in
\* construct. model, nlp and embedder tell where the attributes come from.
construct_kw(kw, load, given) ==
    IF kw \ InitParams # {}
    THEN [err |-> Err("TypeError", "got an unexpected keyword argument", 0),
          self |-> NoInstance, loads |-> <<>>]
    ELSE LET r == construct(load, IF "entities" \in kw THEN given
                                  ELSE <<"default">>)
         IN [err |-> r.err,
             self |-> [made |-> r.self.made, entities |-> r.self.entities,
                       pii_patterns |-> r.self.pii_patterns,
                       model |-> "joblib.load", nlp |-> "spacy.load",
                       embedder |-> "SentenceTransformer"],
             loads |-> LoadsMade(load)]

-----------------------------------------------------------------------------
(* The engine's tokenizer, sentencizer and phrase matcher                  *)

\* Characters split off the front and the end of a word as their own token
PrefixChars == {"(", "["}

SuffixChars == {")", "]", ".", ",", "!", "?"}

\* Sentencizer.default_punct_chars, ASCII
SentPunct == {".", "!", "?"}

\* Characters of Unicode category P, ASCII
PunctChars == {"!", "\"", "#", "%", "&", "'", "(", ")", "*", ",", "-", ".",
               "/", ":", ";", "?", "@", "[", "\\", "]", "_", "{", "}"}

Tok(s, e) == [s |-> s, e |-> e]

\* The tokens of the word text[s:e]: prefixes, the rest, suffixes
RECURSIVE Affixes(_, _, _)
Affixes(text, s, e) ==
    IF s >= e THEN <<>>
    ELSE IF text[s + 1] \in PrefixChars
    THEN <<Tok(s, s + 1)>> \o Affixes(text, s + 1, e)
    ELSE IF text[e] \in SuffixChars
    THEN Affixes(text, s, e - 1) \o <<Tok(e - 1, e)>>
    ELSE <<Tok(s, e)>>

\* Tokenizer.__call__: the text is cut where whitespace begins and ends; one
\* blank after a word belongs to the word, other whitespace is a token
RECURSIVE TokScan(_, _, _, _)
TokScan(text, i, start, in_ws) ==
    LET piece == IF start >= i THEN <<>>
                 ELSE IF in_ws THEN <<Tok(start, i)>>
                 ELSE Affixes(text, start, i)
    IN IF i = Len(text) THEN piece
       ELSE IF (text[i + 1] \in Space) # in_ws
       THEN piece \o TokScan(text, i + 1,
                             IF text[i + 1] = " " THEN i + 1 ELSE i, ~in_ws)
       ELSE TokScan(text, i + 1, start, in_ws)

\* nlp.make_doc(text): tokens as offsets [s, e) into text
Tokenize(text) ==
    IF text = <<>> THEN <<>> ELSE TokScan(text, 0, 0, text[1] \in Space)

TokText(text, tok) == Slice(text, tok.s, tok.e)

\* Token.is_punct
IsPunct(text, tok) == \A i \in (tok.s + 1)..tok.e : text[i] \in PunctChars

\* Sentencizer: the tokens (by index from 1) that start a sentence after
\* the first
RECURSIVE SentScan(_, _, _, _)
SentScan(text, toks, i, seen_period) ==
    IF i > Len(toks) THEN {}
    ELSE LET in_punct == Len(TokText(text, toks[i])) = 1
                            /\ text[toks[i].e] \in SentPunct
         IN IF seen_period /\ ~IsPunct(text, toks[i]) /\ ~in_punct
            THEN {i} \cup SentScan(text, toks, i + 1, FALSE)
            ELSE SentScan(text, toks, i + 1, seen_period \/ in_punct)

SentStarts(text, toks) == {1} \cup SentScan(text, toks, 1, FALSE)

\* doc[i].sent.text, i a token index from 1
SentText(text, toks, i) ==
    LET starts == SentStarts(text, toks)
        a == CHOOSE x \in starts : x <= i /\ \A y \in starts : y <= i => y <= x
        later == {y \in starts : y > i}
        b == IF later = {} THEN Len(toks)
             ELSE (CHOOSE x \in later : \A y \in later : x <= y) - 1
    IN Slice(text, toks[a].s, toks[b].e)

\* doc[a:b].text for the tokens a..b (indices from 1, both included)
SpanText(text, toks, a, b) == Slice(text, toks[a].s, toks[b].e)

\* The LOWER attribute of the tokens a..b
LowerToks(text, toks, a, b) ==
    [i \in 1..(b - a + 1) |-> LowerStr(TokText(text, toks[a + i - 1]))]

\* [nlp_model.make_doc(k) for k in set(skills_map.keys())] under attr="LOWER"
Patterns(keys) ==
    {LET toks == Tokenize(k) IN LowerToks(k, toks, 1, Len(toks)) : k \in keys}

\* PhraseMatcher.__call__: every run of tokens a..b that is a pattern, in
\* the order of a, then of b
RECURSIVE MatchScan(_, _, _, _, _)
MatchScan(pats, text, toks, a, b) ==
    IF a > Len(toks) THEN <<>>
    ELSE IF b > Len(toks) THEN MatchScan(pats, text, toks, a + 1, a + 1)
    ELSE (IF LowerToks(text, toks, a, b) \in pats THEN <<<<a, b>>>> ELSE <<>>)
            \o MatchScan(pats, text, toks, a, b + 1)

\* Matches reporting a phrase as soon as its first tokens are met
Matches_prefix(pats, text, toks) ==
    MatchScan(UNION {{SubSeq(q, 1, n) : n \in 1..Len(q)} : q \in pats},
              text, toks, 1, 1)

\* Matches keeping, of the matches that lie within one another, the longest
Matches_longest(pats, text, toks) ==
    LET all == MatchScan(pats, text, toks, 1, 1)
    IN SelectSeq(all, LAMBDA x :
            ~\E n \in 1..Len(all) :
                /\ all[n] # x
                /\ all[n][1] <= x[1]
                /\ x[2] <= all[n][2])

Matches(pats, text, toks) == MatchScan(pats, text, toks, 1, 1)

-----------------------------------------------------------------------------
(* SkillsExtractor.extract_skills                                          *)

\* A dict as the sequence of its items in insertion order
DictKeys(d) == {d[i][1] : i \in 1..Len(d)}

DictGet(d, k) == d[CHOOSE i \in 1..Len(d) : d[i][1] = k][2]

\* d[k] = v
DictSet(d, k, v) ==
    IF k \in DictKeys(d)
    THEN [i \in 1..Len(d) |-> IF d[i][1] = k THEN <<k, v>> ELSE d[i]]
    ELSE Append(d, <<k, v>>)

\* SkillKey without lower()
SkillKey_raw(text, toks, start, end) == SpanText(text, toks, start, end)

\* doc[start:end].text.lower()
SkillKey(text, toks, start, end) == LowerStr(SpanText(text, toks, start, end))

\* SentValue without strip()
SentValue_unstripped(text, toks, start) == SentText(text, toks, start)

\* doc[start].sent.text.strip()
SentValue(text, toks, start) == Strip(SentText(text, toks, start))

\* Record without the test of seen
Record_overwrite(seen, results, skill, sentence) ==
    DictSet(results, skill, sentence)

\* if skill not in seen: results[skill] = sentence
Record(seen, results, skill, sentence) ==
    IF skill \notin seen THEN DictSet(results, skill, sentence) ELSE results

\* for _, start, end in matches
RECURSIVE SkillLoop(_, _, _, _, _, _)
SkillLoop(text, toks, matches, n, seen, results) ==
    IF n > Len(matches) THEN results
    ELSE LET start == matches[n][1]
             end == matches[n][2]
             skill == SkillKey(text, toks, start, end)
         IN SkillLoop(text, toks, matches, n + 1, seen \cup {skill},
                      Record(seen, results, skill, SentValue(text, toks, start)))

\* extract_skills(text) with the matcher compiled from the keys
extract_skills(keys, text) ==
    LET toks == Tokenize(text)
    IN SkillLoop(text, toks, Matches(Patterns(keys), text, toks), 1, {}, <<>>)

-----------------------------------------------------------------------------
(* The /match route                                                        *)

\* match(): cleaned is what clean_resume(resume_text) gave, second what the
\* clean_resume that classify_resume runs on the cleaned text gave, skills
\* what extract_skills gives for the cleaned text; nlp lists the texts handed
\* to the engine, the last of a served request being the argument of
\* extract_skills, and ents the entities it reported for the two cleanings
match(cleaned, second, skills, scores, sorted) ==
    IF cleaned.err # NoError
    THEN [err |-> cleaned.err, out |-> NoResult, steps |-> <<"clean_resume">>,
          ents |-> cleaned.ents, nlp |-> cleaned.nlp, encode |-> <<>>,
          decision |-> 0]
    ELSE LET categories == classify_resume(cleaned.out, 2, second, scores, sorted)
         IN IF categories.err # NoError
            THEN [err |-> categories.err, out |-> NoResult,
                  steps |-> <<"clean_resume", "classify_resume">>,
                  ents |-> cleaned.ents \o categories.ents,
                  nlp |-> cleaned.nlp \o categories.nlp,
                  encode |-> categories.encode,
                  decision |-> categories.decision]
            ELSE [err |-> NoError,
                  out |-> [type |-> "response",
                           val |-> [categories |-> categories.out.val,
                                    skills |-> skills]],
                  steps |-> <<"clean_resume", "classify_resume", "extract_skills">>,
                  ents |-> cleaned.ents \o categories.ents,
                  nlp |-> cleaned.nlp \o categories.nlp \o <<cleaned.out.val>>,
                  encode |-> categories.encode,
                  decision |-> categories.decision]

-----------------------------------------------------------------------------
(* load_skills_map                                                         *)

\* json.load of an object: the dict of its members in the order they are
\* first met, a name met again taking the later value
RECURSIVE JsonObject(_, _)
JsonObject(members, d) ==
    IF members = <<>> THEN d
    ELSE JsonObject(Tail(members), DictSet(d, Head(members)[1], Head(members)[2]))

\* load_skills_map answering a missing file with an empty mapping
load_skills_map_swallow(file) ==
    IF file.open = "FileNotFoundError"
    THEN [err |-> NoError, out |-> [type |-> "dict", val |-> <<>>]]
    ELSE IF file.open # "ok"
    THEN [err |-> Err(file.open, "", 0), out |-> NoResult]
    ELSE IF file.json # "object"
    THEN [err |-> Err("JSONDecodeError", "", 0), out |-> NoResult]
    ELSE [err |-> NoError,
          out |-> [type |-> "dict", val |-> JsonObject(file.members, <<>>)]]

\* load_skills_map(skill_map_path), file what is at the path: open is how
\* open() ends, json whether the text is a JSON object, members its members
load_skills_map(file) ==
    IF file.open = "FileNotFoundError"
    THEN [err |-> Err("FileNotFoundError", "Skills map json was not found", 0),
          out |-> NoResult]
    ELSE IF file.open # "ok"
    THEN [err |-> Err(file.open, "", 0), out |-> NoResult]
    ELSE IF file.json # "object"
    THEN [err |-> Err("JSONDecodeError", "", 0), out |-> NoResult]
    ELSE [err |-> NoError,
          out |-> [type |-> "dict", val |-> JsonObject(file.members, <<>>)]]

-----------------------------------------------------------------------------
(* SkillsExtractor.__init__                                                *)

\* nlp.has_pipe(name)
has_pipe(pipe_names, name) == \E n \in 1..Len(pipe_names) : pipe_names[n] = name

\* nlp.add_pipe(name, first=True): the engine refuses a name it already has
add_pipe_first(pipe_names, name) ==
    IF has_pipe(pipe_names, name)
    THEN [err |-> Err("ValueError", "already exists in pipeline", 0),
          pipe_names |-> pipe_names]
    ELSE [err |-> NoError, pipe_names |-> <<name>> \o pipe_names]

\* The pipeline of an engine load_nlp() has just loaded
LoadedPipes == <<"tok2vec", "parser", "ner">>

\* ensure_sentencizer adding the stage without asking for it first
ensure_sentencizer_unasked(pipe_names) == add_pipe_first(pipe_names, "sentencizer")

\* if not nlp.has_pipe("sentencizer"): nlp.add_pipe("sentencizer", first=True)
ensure_sentencizer(pipe_names) ==
    IF ~has_pipe(pipe_names, "sentencizer")
    THEN add_pipe_first(pipe_names, "sentencizer")
    ELSE [err |-> NoError, pipe_names |-> pipe_names]

\* SkillsExtractor(nlp, matcher) with shared the pipeline of the engine the
\* callers share. nlp_arg: "given" (the shared engine is passed), "load"
\* (None is passed and load_nlp() succeeds) or the error load_nlp() raises;
\* matcher_arg: "given", "load" or the error load_skills_matcher raises.
\* on: the engine worked on; before, after: its pipeline; shared: the shared
\* engine's pipeline after the call.
SkillsExtractor_init(shared, nlp_arg, matcher_arg) ==
    IF nlp_arg \notin {"given", "load"}
    THEN [err |-> Err(nlp_arg, "", 0), on |-> "none", before |-> <<>>,
          after |-> <<>>, shared |-> shared, matcher |-> matcher_arg]
    ELSE LET before == IF nlp_arg = "given" THEN shared ELSE LoadedPipes
             piped == ensure_sentencizer(before)
             after == piped.pipe_names
             on == IF nlp_arg = "given" THEN "shared" ELSE "loaded"
             err == IF piped.err # NoError THEN piped.err
                    ELSE IF matcher_arg \in {"given", "load"} THEN NoError
                    ELSE Err(matcher_arg, "", 0)
         IN [err |-> err, on |-> on, before |-> before, after |-> after,
             shared |-> IF nlp_arg = "given" THEN after ELSE shared,
             matcher |-> matcher_arg]

\* An engine with the pipeline the application's has once the extractor is built
DefaultEngine ==
    [pipe_names |-> <<"sentencizer">> \o LoadedPipes, built |-> <<>>]

-----------------------------------------------------------------------------
(* Inputs                                                                  *)

\* The texts made of at most n of the pieces
RECURSIVE Texts(_, _)
Texts(pieces, n) ==
    IF n = 0 THEN {<<>>}
    ELSE LET shorter == Texts(pieces, n - 1)
         IN shorter \cup {t \o q : t \in shorter, q \in pieces}

MaxPieces == 2

\* Pieces of resume text: addresses with a letter and a digit local part,
\* a street number, a street, a phone number, a ZIP code, a P.O. box,
\* a name, whitespace and characters outside the allowed set
CleanPieces ==
    {<<"j", "o", "@", "a", "b", ".", "c", "o">>,
     <<"1", "2", "3", "4", "5", "@", "a", "b", ".", "c", "o">>,
     <<"1", "2", " ">>,
     <<"M", "a", "i", "n", " ", "S", "t">>,
     <<"5", "5", "5", "1", "2", "3", "4", "5", "6", "7">>,
     <<"9", "0", "2", "1", "0">>,
     <<" ">>,
     <<"P", ".", "O", ".", " ", "B", "o", "x", " ">>,
     <<"J", "o", "h", "n", " ">>,
     <<"\t">>,
     <<"[", "x", "_", "]">>}

CleanArgs ==
    {StrArg(t) : t \in Texts(CleanPieces, MaxPieces)}
        \cup {OtherArg("int"), OtherArg("NoneType")}

MaxMargin == 2

\* What decision_function may answer: one margin for each class
Margins == [1..n_classes -> 0..MaxMargin]

TopKs == (0 - 1)..(n_classes + 2)

\* Resume texts for classify_resume: valid ones, a blank one and the empty one
ClassifyTexts ==
    {<<"c", "a", "l", "l", " ", "j", "o", "@", "a", "b", ".", "c", "o">>,
     <<"J", "o", "h", "n", " ", "5", "5", "5", "1", "2", "3", "4", "5", "6", "7">>,
     <<" ", "\t">>,
     <<>>}

ClassifyArgs == {StrArg(t) : t \in ClassifyTexts} \cup {OtherArg("int")}

MaxSkillPieces == 3

\* Pieces of text for extract_skills
SkillPieces ==
    {<<"P", "y", "t", "h", "o", "n">>,
     <<"p", "y", "t", "h", "o", "n", ".", " ">>,
     <<" ">>,
     <<"m", "a", "c", "h", "i", "n", "e", " ", "l", "e", "a", "r", "n", "i", "n", "g">>,
     <<" ", "l", "e", "a", "r", "n", "i", "n", "g", ".">>,
     <<"a", "i", " ", "(">>,
     <<"m", "l", ")">>,
     <<"h", "i", "k", "i", "n", "g">>}

\* skills_map.keys(): the phrases of the skill index; ML is an alias whose
\* preferred label is machine learning
skills_map_keys ==
    {<<"p", "y", "t", "h", "o", "n">>,
     <<"m", "a", "c", "h", "i", "n", "e", " ", "l", "e", "a", "r", "n", "i", "n", "g">>,
     <<"l", "e", "a", "r", "n", "i", "n", "g">>,
     <<"M", "L">>,
     <<"a", "i", " ", "(", "m", "l", ")">>}

\* skills_map[k]: the preferred label of the phrase k
Preferred(k) ==
    IF k = <<"M", "L">>
    THEN <<"m", "a", "c", "h", "i", "n", "e", " ",
           "l", "e", "a", "r", "n", "i", "n", "g">>
    ELSE k

MaxAllow == 2

\* Labels for the entities argument: two of the engine's and one it lacks
AllowLabels == {"PERSON", "GPE", "INVALID_LABEL"}

\* The entities arguments tried: none, or a list of labels, valid or not
AllowLists ==
    {<<"default">>} \cup UNION {[1..n -> AllowLabels] : n \in 0..MaxAllow}

\* The outcomes of the three loads of __init__
Loads == {"ok", "FileNotFoundError", "OSError", "ValueError"}

MaxPipes == 3

\* Names of pipeline stages
PipeNames == {"tok2vec", "parser", "ner", "sentencizer"}

\* The pipelines an engine may come with: stage names, none twice
Pipelines ==
    {p \in UNION {[1..n -> PipeNames] : n \in 0..MaxPipes} :
        \A i, j \in 1..Len(p) : i # j => p[i] # p[j]}

MaxBuilt == 2

\* The nlp and matcher arguments of SkillsExtractor and how their loads end
NlpArgs == {"given", "load", "OSError"}

MatcherArgs == {"given", "load", "FileNotFoundError", "JSONDecodeError"}

MaxMembers == 2

\* The members a skill map file may hold: a phrase and a label
Members == {<<k, Preferred(x)>> : k \in skills_map_keys, x \in skills_map_keys}

\* What may be at skill_map_path: nothing, a file that cannot be read, a
\* file that is not JSON, or a JSON object of some members
Files ==
    {[open |-> o, json |-> "none", members |-> <<>>] :
        o \in {"FileNotFoundError", "PermissionError"}}
      \cup {[open |-> "ok", json |-> "invalid", members |-> <<>>]}
      \cup {[open |-> "ok", json |-> "object", members |-> ms] :
               ms \in UNION {[1..n -> Members] : n \in 0..MaxMembers}}

\* Keyword names a caller may pass to ResumeClassifier
KwNames ==
    {"model", "model_dir", "nlp_model", "embedding_model", "entities", "pii_entities"}

\* Request texts for /match: a skill beside an address, a name beside a
\* skill, a phrase of the index alone, a blank text and the empty one
MatchTexts ==
    {<<"P", "y", "t", "h", "o", "n", " ", "j", "o", "@", "a", "b", ".", "c", "o">>,
     <<"J", "o", "h", "n", " ", "p", "y", "t", "h", "o", "n", ".">>,
     <<"m", "a", "c", "h", "i", "n", "e", " ", "l", "e", "a", "r", "n", "i", "n", "g">>,
     <<" ", "\t">>,
     <<>>}

MatchArgs == {StrArg(t) : t \in MatchTexts} \cup {OtherArg("int")}

MaxStreetDigits == 6

\* A street number of n digits
StreetNumber(n) == SubSeq(<<"1", "2", "3", "4", "5", "6", "7", "8", "9">>, 1, n)

StreetName == <<" ", "M", "a", "i", "n", " ", "S", "t">>

\* Street addresses with street numbers of every length up to the bound
StreetAddresses == {StreetNumber(n) \o StreetName : n \in 1..MaxStreetDigits}

MaxSpans == 2

\* Resume texts at the edges of the rules: street addresses, a bracketed
\* label written by hand alone and beside an address, texts of characters
\* outside the allowed set only, an e-mail address, names around an address
EdgeTexts ==
    StreetAddresses
      \cup {<<"[", "E", "M", "A", "I", "L", "]">>,
            <<"[", "E", "M", "A", "I", "L", "]", " ", "j", "o", "@", "a", "b", ".", "c", "o">>,
            <<"#">>,
            <<" ", "[", "]", "!", " ">>,
            <<"j", "o", "@", "a", "b", ".", "c", "o">>,
            <<"J", "o", "h", "n", " ", "j", "o", "@", "a", "b", ".", "c", "o", " ", "A", "c", "m", "e">>}

EdgeArgs == {StrArg(t) : t \in EdgeTexts}

MaxThreads == 2

\* Request texts served side by side: a skill beside an address and a name
\* beside a skill
SkillAndAddress ==
    <<"p", "y", "t", "h", "o", "n", " ", "j", "o", "@", "a", "b", ".", "c", "o">>

NameAndSkill == <<"J", "o", "h", "n", " ", "l", "e", "a", "r", "n", "i", "n", "g">>

ServeArgs == {StrArg(SkillAndAddress), StrArg(NameAndSkill), OtherArg("int")}

\* The calls made side by side: the method, its text and its top_k
Requests ==
    {[op |-> "clean_resume", arg |-> StrArg(SkillAndAddress), top_k |-> 2],
     [op |-> "clean_resume", arg |-> OtherArg("int"), top_k |-> 2],
     [op |-> "classify_resume", arg |-> StrArg(NameAndSkill), top_k |-> 2],
     [op |-> "classify_resume", arg |-> StrArg(SkillAndAddress), top_k |-> 0],
     [op |-> "extract_skills", arg |-> StrArg(NameAndSkill), top_k |-> 2]}

\* What a failing service raises
ServiceErrors == {"RuntimeError", "MemoryError"}

\* How a call of a service ends: it answers or it raises
Outcomes == {"ok"} \cup ServiceErrors

-----------------------------------------------------------------------------
(* State                                                                   *)

VARIABLES
    arg,        \* the text argument of the calls
    top_k,      \* the top_k argument of classify_resume
    margins,    \* decision_function's answer for the text
    rc,         \* the ResumeClassifier instance
    call,       \* the last call: what it raised or returned and what it did
    engine,     \* the shared language engine: its pipeline and the
                \* SkillsExtractor constructions made with it
    threads     \* the calls in progress side by side: for each its
                \* position in the code and its local variables

vars == <<arg, top_k, margins, rc, call, engine, threads>>

\* The record of a call: op its name, err the exception raised (NoError if
\* none), out the value returned (NoResult if none), steps the steps of
\* clean_resume that ran, ents the engine's doc.ents, nlp and encode the texts
\* handed to the engine and to embedder.encode, decision the number of calls
\* of decision_function
Call(name, r) ==
    [op |-> name, err |-> r.err, out |-> r.out, steps |-> r.steps,
     ents |-> r.ents, nlp |-> r.nlp, encode |-> r.encode,
     decision |-> r.decision]

NoCall ==
    [op |-> "none", err |-> NoError, out |-> NoResult, steps |-> <<>>,
     ents |-> <<>>, nlp |-> <<>>, encode |-> <<>>, decision |-> 0]

DefaultInstance == construct("ok", <<"default">>).self

\* clean_pre of every text argument of the model, computed once
clean_pre_of == [a \in CleanArgs \cup ClassifyArgs |-> clean_pre(a)]

InitClean ==
    /\ arg \in CleanArgs
    /\ top_k = 2
    /\ margins = [i \in 1..n_classes |-> 0]
    /\ rc = DefaultInstance
    /\ call = NoCall
    /\ engine = DefaultEngine
    /\ threads = <<>>

InitClassify ==
    /\ arg \in ClassifyArgs
    /\ top_k \in TopKs
    /\ margins \in Margins
    /\ rc = DefaultInstance
    /\ call = NoCall
    /\ engine = DefaultEngine
    /\ threads = <<>>

InitSkills ==
    /\ arg \in {StrArg(t) : t \in Texts(SkillPieces, MaxSkillPieces)}
    /\ top_k = 2
    /\ margins = [i \in 1..n_classes |-> 0]
    /\ rc = DefaultInstance
    /\ call = NoCall
    /\ engine = DefaultEngine
    /\ threads = <<>>

InitConstruct ==
    /\ arg = StrArg(<<>>)
    /\ top_k = 2
    /\ margins = [i \in 1..n_classes |-> 0]
    /\ rc = NoInstance
    /\ call = NoCall
    /\ engine = DefaultEngine
    /\ threads = <<>>

InitExtractor ==
    /\ arg = StrArg(<<>>)
    /\ top_k = 2
    /\ margins = [i \in 1..n_classes |-> 0]
    /\ rc = DefaultInstance
    /\ call = NoCall
    /\ engine \in [pipe_names : Pipelines, built : {<<>>}]
    /\ threads = <<>>

InitLoadMap ==
    /\ arg \in {[type |-> "file", val |-> f] : f \in Files}
    /\ top_k = 2
    /\ margins = [i \in 1..n_classes |-> 0]
    /\ rc = DefaultInstance
    /\ call = NoCall
    /\ engine = DefaultEngine
    /\ threads = <<>>

InitMatch ==
    /\ arg \in MatchArgs
    /\ top_k = 2
    /\ margins \in Margins
    /\ rc = DefaultInstance
    /\ call = NoCall
    /\ engine = DefaultEngine
    /\ threads = <<>>

InitReclean ==
    /\ arg \in EdgeArgs
    /\ top_k = 2
    /\ margins = [i \in 1..n_classes |-> 0]
    /\ rc = DefaultInstance
    /\ call = NoCall
    /\ engine = DefaultEngine
    /\ threads = <<>>

\* A SkillsExtractor(nlp=nlp) about to test the shared engine for the stage
Constructing == [op |-> "SkillsExtractor", pc |-> "has_pipe", err |-> NoError]

InitRace ==
    /\ arg = StrArg(<<>>)
    /\ top_k = 2
    /\ margins = [i \in 1..n_classes |-> 0]
    /\ rc = DefaultInstance
    /\ call = NoCall
    /\ engine \in [pipe_names : Pipelines, built : {<<>>}]
    /\ threads = [i \in 1..MaxThreads |-> Constructing]

\* The service that raised in a call and what it raised
Failure(service, e) == [at |-> service, e |-> e]

NoFailure == Failure("none", "none")

\* A call that has not started: text and ents are its local variables text
\* and doc.ents, used the services it has called, failed the service that
\* raised in it
Thread(request) ==
    [op |-> request.op, arg |-> request.arg, top_k |-> request.top_k,
     pc |-> "start", text |-> <<>>, ents |-> <<>>, encode |-> <<>>,
     err |-> NoError, out |-> NoResult, used |-> <<>>, failed |-> NoFailure]

\* clean_pre of every text served, computed once
serve_pre_of == [a \in ServeArgs |-> clean_pre(a)]

\* The instances the calls are made on: the default one and one constructed
\* with another allow-list
ServeInstances == {DefaultInstance, construct("ok", <<"ORG">>).self}

\* The label the engine puts on what it finds, and decision_function's
\* answer, while the calls are served
ServeFinds == "PERSON"

ServeMargins == [i \in 1..n_classes |-> i]

InitServe ==
    /\ arg = StrArg(<<>>)
    /\ top_k = 2
    /\ margins = ServeMargins
    /\ rc \in ServeInstances
    /\ call = NoCall
    /\ engine \in [pipe_names : {DefaultEngine.pipe_names}, built : {<<>>},
                    finds : {ServeFinds}]
    /\ threads \in [1..MaxThreads -> {Thread(r) : r \in Requests}]

-----------------------------------------------------------------------------
(* Calls                                                                   *)

\* What the engine may answer in the clean_resume that got as far as pre
Answers(pre) == IF pre.err = NoError THEN DocEnts(pre.text) ELSE {<<>>}

\* rc.clean_resume(arg); a call after the first has the same outcomes and
\* is not followed
CleanResume ==
    /\ rc.made
    /\ call = NoCall
    /\ \E answer \in Answers(clean_pre_of[arg]) :
          call' = Call("clean_resume",
                       clean_post(rc.entities, clean_pre_of[arg], answer))
    /\ UNCHANGED <<arg, top_k, margins, rc, engine, threads>>

\* rc.classify_resume(arg, top_k)
ClassifyResume ==
    /\ rc.made
    /\ \E answer \in (IF TopKInRange(top_k) THEN Answers(clean_pre_of[arg])
                      ELSE {<<>>}) :
       \E sorted \in Argsorts(margins) :
          call' = Call("classify_resume",
                       classify_resume(arg, top_k,
                           clean_post(rc.entities, clean_pre_of[arg], answer),
                           margins, sorted))
    /\ UNCHANGED <<arg, top_k, margins, rc, engine, threads>>

\* skill_extractor.extract_skills(arg)
ExtractSkills ==
    /\ arg.type = "str"
    /\ call' = Call("extract_skills",
                    [err |-> NoError,
                     out |-> [type |-> "dict",
                              val |-> extract_skills(skills_map_keys, arg.val)],
                     steps |-> <<>>, ents |-> <<>>, nlp |-> <<arg.val>>,
                     encode |-> <<>>, decision |-> 0])
    /\ UNCHANGED <<arg, top_k, margins, rc, engine, threads>>

\* rc = ResumeClassifier(entities=given), none passed when given is default
Construct ==
    \E load \in Loads, given \in AllowLists :
        LET r == construct(load, given)
        IN /\ rc' = IF r.err = NoError THEN r.self ELSE rc
           /\ arg' = [type |-> "list", val |-> given]
           /\ call' = Call("__init__",
                           [err |-> r.err, out |-> NoResult, steps |-> <<>>,
                            ents |-> <<>>, nlp |-> <<>>, encode |-> <<>>,
                            decision |-> 0])
           /\ UNCHANGED <<top_k, margins, engine, threads>>

\* SkillsExtractor(nlp=..., matcher=...), the shared engine passed or not
ConstructExtractor ==
    /\ Len(engine.built) < MaxBuilt
    /\ \E nlp_arg \in NlpArgs, matcher_arg \in MatcherArgs :
          LET r == SkillsExtractor_init(engine.pipe_names, nlp_arg, matcher_arg)
          IN /\ engine' = [pipe_names |-> r.shared,
                           built |-> Append(engine.built, r)]
             /\ call' = Call("SkillsExtractor",
                             [err |-> r.err, out |-> NoResult, steps |-> <<>>,
                              ents |-> <<>>, nlp |-> <<>>, encode |-> <<>>,
                              decision |-> 0])
    /\ UNCHANGED <<arg, top_k, margins, rc, threads>>

\* load_skills_map(path) with arg what is at the path
LoadSkillsMap ==
    /\ arg.type = "file"
    /\ LET r == load_skills_map(arg.val)
       IN call' = Call("load_skills_map",
                       [err |-> r.err, out |-> r.out, steps |-> <<>>,
                        ents |-> <<>>, nlp |-> <<>>, encode |-> <<>>,
                        decision |-> 0])
    /\ UNCHANGED <<arg, top_k, margins, rc, engine, threads>>

\* rc = ResumeClassifier(**kw) with objects already loaded as the arguments
ConstructInjected ==
    \E kw \in SUBSET KwNames, load \in Loads :
      \E given \in (IF "entities" \in kw THEN AllowLists ELSE {<<"default">>}) :
        LET r == construct_kw(kw, load, given)
        IN /\ rc' = IF r.err = NoError THEN r.self ELSE rc
           /\ arg' = [type |-> "kwargs", val |-> kw]
           /\ call' = Call("__init__",
                           [err |-> r.err, out |-> NoResult, steps |-> r.loads,
                            ents |-> <<>>, nlp |-> <<>>, encode |-> <<>>,
                            decision |-> 0])
           /\ UNCHANGED <<top_k, margins, engine, threads>>

\* The first clean_resume of a request on resume_text, the second on what
\* the first returned, extract_skills on the same: one for each pair of
\* answers of the engine, which answers the same for the same text
MatchFlows(entities, keys, resume_text) ==
    LET pre == clean_pre(resume_text)
    IN UNION {
         LET cleaned == clean_post(entities, pre, answer1)
             again == IF cleaned.err = NoError THEN clean_pre(cleaned.out) ELSE pre
         IN {[cleaned |-> cleaned,
              second |-> clean_post(entities, again, answer2),
              skills |-> IF cleaned.err = NoError
                         THEN extract_skills(keys, cleaned.out.val) ELSE <<>>] :
                answer2 \in (IF cleaned.err = NoError /\ again.text = pre.text
                             THEN {answer1} ELSE Answers(again))} :
         answer1 \in Answers(pre)}

\* MatchFlows of every request text of the model, computed once
match_flows_of ==
    [a \in MatchArgs |-> MatchFlows(DefaultEntities, skills_map_keys, a)]

\* POST /match with resume_text = arg
Match ==
    /\ rc.made
    /\ \E flow \in match_flows_of[arg] :
       \E sorted \in Argsorts(margins) :
          call' = Call("match",
                       match(flow.cleaned, flow.second, flow.skills,
                             margins, sorted))
    /\ UNCHANGED <<arg, top_k, margins, rc, engine, threads>>

\* What the engine may answer, up to MaxSpans entities, in the clean_resume
\* that got as far as pre
SpanAnswers(pre) ==
    IF pre.err = NoError THEN DocEntsUpTo(pre.text, MaxSpans) ELSE {<<>>}

\* clean_pre of every edge text, computed once
edge_pre_of == [a \in EdgeArgs |-> clean_pre(a)]

\* The texts clean_resume may return for the edge texts
EdgeCleaned ==
    UNION {{clean_post(DefaultEntities, edge_pre_of[a], answer).out :
               answer \in SpanAnswers(edge_pre_of[a])} : a \in EdgeArgs}

\* clean_pre of every text returned for an edge text, computed once
again_pre_of == [x \in EdgeCleaned |-> clean_pre(x)]

\* rc.clean_resume(arg), the engine reporting several entities
CleanSpans ==
    /\ rc.made
    /\ arg \in EdgeArgs
    /\ \E answer \in SpanAnswers(edge_pre_of[arg]) :
          call' = Call("clean_resume",
                       clean_post(rc.entities, edge_pre_of[arg], answer))
    /\ UNCHANGED <<arg, top_k, margins, rc, engine, threads>>

\* rc.clean_resume(cleaned), cleaned the text the last clean_resume returned
CleanAgain ==
    /\ rc.made
    /\ arg \in EdgeArgs
    /\ call.op = "clean_resume"
    /\ call.err = NoError
    /\ arg' = call.out
    /\ \E answer \in SpanAnswers(again_pre_of[call.out]) :
          call' = Call("clean_resume",
                       clean_post(rc.entities, again_pre_of[call.out], answer))
    /\ UNCHANGED <<top_k, margins, rc, engine, threads>>

\* A construction evaluates nlp.has_pipe("sentencizer") (line 32)
HasPipe ==
    /\ \E i \in 1..Len(threads) :
          /\ threads[i].op = "SkillsExtractor"
          /\ threads[i].pc = "has_pipe"
          /\ threads' =
                [threads EXCEPT ![i].pc =
                    IF has_pipe(engine.pipe_names, "sentencizer")
                    THEN "done" ELSE "add_pipe"]
    /\ UNCHANGED <<arg, top_k, margins, rc, call, engine>>

\* A construction that found no stage calls nlp.add_pipe (line 33)
AddPipe ==
    /\ \E i \in 1..Len(threads) :
          /\ threads[i].op = "SkillsExtractor"
          /\ threads[i].pc = "add_pipe"
          /\ LET r == add_pipe_first(engine.pipe_names, "sentencizer")
             IN /\ engine' = [engine EXCEPT !.pipe_names = r.pipe_names]
                /\ threads' = [threads EXCEPT ![i].pc = "done", ![i].err = r.err]
    /\ UNCHANGED <<arg, top_k, margins, rc, call>>

\* doc.ents of an engine that answers the same for the same text: it finds
\* nothing, or the first word of the text under the label finds
EngineEnts(finds, text) ==
    IF finds = "none" \/ EntEnds(text) = {} THEN <<>>
    ELSE <<[start_char |-> 0,
            end_char |-> CHOOSE j \in EntEnds(text) : \A k \in EntEnds(text) : j <= k,
            label_ |-> finds]>>

\* The frame that holds the local variables of the call i: its own
frame_shared(i) == 1

frame(i) == i

\* A service raised e in the call t and nothing caught it
Raise_swallowed(t, service, e) ==
    [t EXCEPT !.out = StrArg(<<>>), !.pc = "done",
              !.failed = Failure(service, e), !.used = Append(t.used, service)]

\* The exception e of a service leaves the method: no try around the calls
Raise(t, service, e) ==
    [t EXCEPT !.err = Err(e, "", 0), !.pc = "done",
              !.failed = Failure(service, e), !.used = Append(t.used, service)]

\* The call i runs down to its first call of the engine
Started(i) ==
    LET t == threads[i]
        pre == serve_pre_of[t.arg]
    IN IF t.op = "classify_resume" /\ ~TopKInRange(t.top_k)
       THEN [threads EXCEPT ![i].pc = "done",
                ![i].err = Err("ValueError", "top_k must be between", n_classes)]
       ELSE IF t.op = "extract_skills"
       THEN [threads EXCEPT ![frame(i)].text = t.arg.val, ![i].pc = "nlp"]
       ELSE IF pre.err # NoError
       THEN [threads EXCEPT ![i].pc = "done", ![i].err = pre.err]
       ELSE [threads EXCEPT ![frame(i)].text = pre.text, ![i].pc = "nlp"]

\* self.nlp(text) ends in the call i, and the call runs on to its next
\* call of a service or to its end
Parsed(i, outcome) ==
    LET t == threads[i]
        text == threads[frame(i)].text
        ents == EngineEnts(engine.finds, text)
        served == [t EXCEPT !.used = Append(t.used, "nlp")]
    IN IF outcome # "ok" THEN [threads EXCEPT ![i] = Raise(t, "nlp", outcome)]
       ELSE IF t.op = "extract_skills"
       THEN [threads EXCEPT ![i] =
                [served EXCEPT !.pc = "done",
                    !.out = [type |-> "dict",
                             val |-> extract_skills(skills_map_keys, text)]]]
       ELSE LET cleaned == EntityPass(rc.entities, text, ents, Len(ents))
            IN IF t.op = "clean_resume"
               THEN [threads EXCEPT ![i] =
                        [served EXCEPT !.pc = "done", !.ents = ents,
                                       !.out = StrArg(cleaned)]]
               ELSE [[threads EXCEPT ![i] =
                         [served EXCEPT !.pc = "encode", !.ents = ents]]
                        EXCEPT ![frame(i)].text = cleaned]

\* self.embedder.encode(cleaned) ends in the call i
Encoded(i, outcome) ==
    LET t == threads[i]
    IN IF outcome # "ok" THEN [threads EXCEPT ![i] = Raise(t, "encode", outcome)]
       ELSE [threads EXCEPT ![i].pc = "decide",
                ![i].encode = <<threads[frame(i)].text>>,
                ![i].used = Append(t.used, "encode")]

\* self.model.decision_function(embedded) ends in the call i, and the call
\* returns the labels
Decided(i, outcome, sorted) ==
    LET t == threads[i]
    IN IF outcome # "ok"
       THEN [threads EXCEPT ![i] = Raise(t, "decision_function", outcome)]
       ELSE [threads EXCEPT ![i].pc = "done",
                ![i].out = [type |-> "list", val |-> Labels(TopK(sorted, t.top_k))],
                ![i].used = Append(t.used, "decision_function")]

\* A call validates its arguments and runs the rules
ServeStart ==
    /\ \E i \in 1..Len(threads) :
          /\ threads[i].pc = "start"
          /\ threads' = Started(i)
    /\ UNCHANGED <<arg, top_k, margins, rc, call, engine>>

\* A call gets the engine's answer, or its exception
ServeNlp ==
    /\ \E i \in 1..Len(threads), outcome \in Outcomes :
          /\ threads[i].pc = "nlp"
          /\ threads' = Parsed(i, outcome)
    /\ UNCHANGED <<arg, top_k, margins, rc, call, engine>>

\* ServeEncode with the allow-list of the instance emptied on the way
ServeEncode_emptying ==
    /\ \E i \in 1..Len(threads), outcome \in Outcomes :
          /\ threads[i].pc = "encode"
          /\ threads' = Encoded(i, outcome)
    /\ rc' = [rc EXCEPT !.entities = <<>>]
    /\ UNCHANGED <<arg, top_k, margins, call, engine>>

\* A classify_resume gets the embedder's answer, or its exception
ServeEncode ==
    /\ \E i \in 1..Len(threads), outcome \in Outcomes :
          /\ threads[i].pc = "encode"
          /\ threads' = Encoded(i, outcome)
    /\ UNCHANGED <<arg, top_k, margins, rc, call, engine>>

\* A classify_resume gets the model's answer, or its exception
ServeDecide ==
    /\ \E i \in 1..Len(threads), outcome \in Outcomes :
       \E sorted \in Argsorts(margins) :
          /\ threads[i].pc = "decide"
          /\ threads' = Decided(i, outcome, sorted)
    /\ UNCHANGED <<arg, top_k, margins, rc, call, engine>>

SpecClean == InitClean /\ [][CleanResume]_vars

SpecClassify == InitClassify /\ [][ClassifyResume]_vars

SpecSkills == InitSkills /\ [][ExtractSkills]_vars

SpecConstruct == InitConstruct /\ [][Construct]_vars

SpecExtractor == InitExtractor /\ [][ConstructExtractor]_vars

SpecLoadMap == InitLoadMap /\ [][LoadSkillsMap]_vars

SpecInject == InitConstruct /\ [][ConstructInjected]_vars

SpecMatch == InitMatch /\ [][Match]_vars

SpecReclean == InitReclean /\ [][CleanSpans \/ CleanAgain]_vars

SpecRace == InitRace /\ [][HasPipe \/ AddPipe]_vars

SpecServe ==
    InitServe /\ [][ServeStart \/ ServeNlp \/ ServeEncode \/ ServeDecide]_vars

-----------------------------------------------------------------------------
(* Properties of clean_resume                                              *)

EMAIL == <<"E", "M", "A", "I", "L">>

\* The e-mail addresses among the pieces of the resume texts
Addresses ==
    {<<"j", "o", "@", "a", "b", ".", "c", "o">>,
     <<"1", "2", "3", "4", "5", "@", "a", "b", ".", "c", "o">>}

Cleaned == call.op = "clean_resume" /\ call.err = NoError

\* C1: whenever the text given to clean_resume contains an e-mail address,
\* the text returned contains the token [EMAIL] and does not contain the
\* address (stated for the calls in which the engine finds no entity).
C1_EmailRedacted ==
    (Cleaned /\ call.ents = <<>>) =>
        \A a \in Addresses :
            Contains(arg.val, a) =>
                /\ Contains(call.out.val, Token(EMAIL))
                /\ ~Contains(call.out.val, a)

NothingRan ==
    /\ call.out = NoResult
    /\ call.steps = <<>>
    /\ call.nlp = <<>>

\* C2: clean_resume raises TypeError for an argument that is not a string and
\* ValueError for a string that is empty once trimmed, and in both cases no
\* stripping, no substitution and no call of the engine has taken place.
C2_InvalidInputRejected ==
    call.op = "clean_resume" =>
        /\ arg.type # "str" => call.err.type = "TypeError" /\ NothingRan
        /\ (arg.type = "str" /\ \A i \in 1..Len(arg.val) : arg.val[i] \in Space)
              => call.err.type = "ValueError" /\ NothingRan

\* a string of whitespace only was rejected
C2_Witness ==
    /\ call.op = "clean_resume"
    /\ arg.type = "str"
    /\ Len(arg.val) >= 2
    /\ \A i \in 1..Len(arg.val) : arg.val[i] \in Space
    /\ call.err.type = "ValueError"
    /\ NothingRan

-----------------------------------------------------------------------------
(* Properties of classify_resume                                           *)

Classified == call.op = "classify_resume" /\ call.err = NoError

ClassIndex(label) == CHOOSE i \in 1..n_classes : classes_[i] = label

MarginOf(label) == margins[ClassIndex(label)]

ValidText == arg.type = "str" /\ \E i \in 1..Len(arg.val) : arg.val[i] \notin Space

\* C3: for a valid text and 1 <= top_k <= number of classes, classify_resume
\* returns exactly top_k labels, pairwise distinct, all known classes, with
\* margins that do not increase along the result, and no class left out has
\* a margin greater than a returned one.
C3_TopKLabels ==
    call.op = "classify_resume" /\ ValidText /\ 1 <= top_k /\ top_k <= n_classes
        => /\ call.err = NoError
           /\ LET res == call.out.val
              IN /\ Len(res) = top_k
                 /\ \A i, j \in 1..Len(res) : i # j => res[i] # res[j]
                 /\ \A i \in 1..Len(res) : \E c \in 1..n_classes : classes_[c] = res[i]
                 /\ \A i \in 1..(Len(res) - 1) :
                        MarginOf(res[i]) >= MarginOf(res[i + 1])
                 /\ \A c \in 1..n_classes :
                        (\A i \in 1..Len(res) : res[i] # classes_[c])
                            => \A i \in 1..Len(res) : margins[c] <= MarginOf(res[i])

\* two labels were returned, the margins of the classes not all equal
C3_Witness ==
    /\ Classified
    /\ top_k = 2
    /\ Len(call.out.val) = 2
    /\ \E c \in 1..n_classes : margins[c] < MarginOf(call.out.val[2])

\* C4: classify_resume raises the ValueError naming the bound for top_k < 1
\* and for top_k > number of classes, whatever the text, before clean_resume,
\* the embedder or the model is used; top_k = number of classes is accepted.
C4_TopKRangeError ==
    call.op = "classify_resume" =>
        /\ (top_k < 1 \/ top_k > n_classes) =>
              /\ call.err = Err("ValueError", "top_k must be between", Len(classes_))
              /\ NothingRan
              /\ call.encode = <<>>
              /\ call.decision = 0
        /\ (top_k >= 1 /\ top_k <= n_classes) =>
              call.err.msg # "top_k must be between"

\* top_k out of range and a text that is not a string: the range error
C4_Witness ==
    /\ call.op = "classify_resume"
    /\ top_k > n_classes
    /\ arg.type # "str"
    /\ call.err.msg = "top_k must be between"

\* C5: in a successful classify_resume the embedder is called once, with the
\* text clean_resume returns for the argument, and decision_function once.
C5_EmbedsCleanedText ==
    Classified =>
        /\ call.encode
              = <<EntityPass(rc.entities, RegexClean(arg.val), call.ents,
                             Len(call.ents))>>
        /\ call.decision = 1
        /\ call.nlp = <<RegexClean(arg.val)>>

\* the text embedded is not the text given
C5_Witness ==
    /\ Classified
    /\ Len(call.encode) = 1
    /\ call.encode[1] # arg.val
    /\ Contains(call.encode[1], Token(EMAIL))

-----------------------------------------------------------------------------
(* Properties of extract_skills                                            *)

Extracted == call.op = "extract_skills" /\ call.err = NoError

ArgToks == Tokenize(arg.val)

\* The phrases of the index as the matcher holds them
IndexPatterns == Patterns(skills_map_keys)

\* The runs of whole tokens of the text that are phrases of the index
PhraseRuns ==
    {ab \in (1..Len(ArgToks)) \X (1..Len(ArgToks)) :
        /\ ab[1] <= ab[2]
        /\ LowerToks(arg.val, ArgToks, ab[1], ab[2]) \in IndexPatterns}

Surface(ab) == SpanText(arg.val, ArgToks, ab[1], ab[2])

\* The tokens at which the surface form k, lowercased, begins
Occurrences(k) == {ab[1] : ab \in {r \in PhraseRuns : LowerStr(Surface(r)) = k}}

Leftmost(k) == CHOOSE a \in Occurrences(k) : \A x \in Occurrences(k) : a <= x

\* The sentence (by its first token) a token lies in
SentenceOf(a) ==
    CHOOSE x \in SentStarts(arg.val, ArgToks) :
        x <= a /\ \A y \in SentStarts(arg.val, ArgToks) : y <= a => y <= x

\* C6: extract_skills returns no key twice, and the sentence stored for a
\* key is the one of the leftmost occurrence of that surface form.
C6_FirstOccurrenceWins ==
    Extracted =>
        LET d == call.out.val
        IN /\ \A i, j \in 1..Len(d) : i # j => d[i][1] # d[j][1]
           /\ \A i \in 1..Len(d) :
                 /\ Occurrences(d[i][1]) # {}
                 /\ d[i][2] = Strip(SentText(arg.val, ArgToks, Leftmost(d[i][1])))

\* a surface form occurs in three sentences, the first unlike the last
C6_Witness ==
    /\ Extracted
    /\ \E i \in 1..Len(call.out.val) :
          LET occ == Occurrences(call.out.val[i][1])
          IN /\ Cardinality({SentenceOf(a) : a \in occ}) >= 3
             /\ \E a \in occ :
                   Strip(SentText(arg.val, ArgToks, a)) # call.out.val[i][2]

\* the text without its whitespace
Unspaced(t) == SelectSeq(t, LAMBDA c : c \notin Space)

IndexKeysLowered == {LowerStr(k) : k \in skills_map_keys}

\* C7 as claimed: every key returned is the lowercased form of a key of the
\* index, and every phrase of the index met in the text yields a key.
C7_KeysAreIndexKeys ==
    Extracted =>
        /\ \A k \in DictKeys(call.out.val) : k \in IndexKeysLowered
        /\ \A r \in PhraseRuns : LowerStr(Surface(r)) \in DictKeys(call.out.val)

\* C7, amended: the keys returned are exactly the lowercased surface strings
\* of the phrase matches; each equals the lowercased form of a key of the
\* index up to the whitespace between its tokens, and every phrase of the
\* index whose tokens are met in the text yields a key.
C7_KeysAreMatchedSurfaces ==
    Extracted =>
        /\ DictKeys(call.out.val) = {LowerStr(Surface(r)) : r \in PhraseRuns}
        /\ \A k \in DictKeys(call.out.val) :
              \E x \in IndexKeysLowered : Unspaced(k) = Unspaced(x)

\* a key was returned that is no key of the index: the phrase was met with
\* other whitespace between its tokens
C7_Witness ==
    /\ Extracted
    /\ \E k \in DictKeys(call.out.val) :
          /\ k \notin IndexKeysLowered
          /\ \E x \in IndexKeysLowered : Unspaced(k) = Unspaced(x)

\* C8: for the empty string and for a text with no phrase of the index,
\* extract_skills returns the empty mapping and raises nothing.
C8_NoSkillsEmptyMapping ==
    (call.op = "extract_skills" /\ (arg.val = <<>> \/ PhraseRuns = {})) =>
        /\ call.err = NoError
        /\ call.out = [type |-> "dict", val |-> <<>>]

\* a text of several tokens without a phrase gave the empty mapping
C8_Witness ==
    /\ Extracted
    /\ Len(ArgToks) >= 2
    /\ PhraseRuns = {}
    /\ call.out.val = <<>>

\* C9: every value returned is the text of the sentence of the first token
\* of a match of its key, without leading or trailing whitespace; when the
\* text is one sentence, the value is the whole text, stripped.
C9_ValuesAreSentences ==
    Extracted =>
        \A i \in 1..Len(call.out.val) :
            LET v == call.out.val[i][2]
            IN /\ v # <<>> /\ v[1] \notin Space /\ v[Len(v)] \notin Space
               /\ \E a \in Occurrences(call.out.val[i][1]) :
                     v = Strip(SentText(arg.val, ArgToks, a))
               /\ SentStarts(arg.val, ArgToks) = {1} => v = Strip(arg.val)

\* a text of one sentence that begins with whitespace and holds a skill
C9_Witness ==
    /\ Extracted
    /\ call.out.val # <<>>
    /\ SentStarts(arg.val, ArgToks) = {1}
    /\ arg.val[1] \in Space

-----------------------------------------------------------------------------
(* Properties of ResumeClassifier.__init__                                 *)

\* C10: a construction with a label outside the engine's NER labels in the
\* allow-list fails, so no instance holds such a label; a list of valid
\* labels is stored as given and the default is PERSON, GPE, LOC.
C10_AllowListValidated ==
    /\ rc.made =>
          \A i \in 1..Len(rc.entities) :
              rc.entities[i] \in {"PERSON", "ORG", "GPE", "LOC"}
    /\ call.op = "__init__" =>
          /\ (arg.val # <<"default">>
                /\ \E i \in 1..Len(arg.val) : arg.val[i] \notin NerLabels)
                => call.err # NoError
          /\ call.err = NoError =>
                /\ rc.made
                /\ rc.entities = IF arg.val = <<"default">>
                                 THEN <<"PERSON", "GPE", "LOC">> ELSE arg.val

\* a list with a valid and an invalid label was refused by the assertion
C10_Witness ==
    /\ call.op = "__init__"
    /\ arg.val = <<"PERSON", "INVALID_LABEL">>
    /\ call.err.type = "AssertionError"
    /\ ~rc.made

-----------------------------------------------------------------------------
(* Properties of the entity pass of clean_resume                           *)

\* label in self.entities
Listed(entities, label) == \E n \in 1..Len(entities) : entities[n] = label

\* How far the replacements of the first k entities move what follows them
RECURSIVE Shift(_, _, _)
Shift(entities, ents, k) ==
    IF k = 0 THEN 0
    ELSE Shift(entities, ents, k - 1)
            + IF Listed(entities, ents[k].label_)
              THEN Len(Token(LabelText(ents[k].label_)))
                      - (ents[k].end_char - ents[k].start_char)
              ELSE 0

\* C12: an entity whose label is not in the allow-list is not replaced: its
\* text stands in the output where the replacements before it have moved it,
\* and the output holds no token of a label outside the allow-list.
C12_UnlistedEntityKept ==
    Cleaned =>
        /\ \A k \in 1..Len(call.ents) :
              LET e == call.ents[k]
                  at == e.start_char + Shift(rc.entities, call.ents, k - 1)
              IN ~Listed(rc.entities, e.label_) =>
                    Slice(call.out.val, at, at + (e.end_char - e.start_char))
                        = Slice(call.nlp[1], e.start_char, e.end_char)
        /\ \A l \in NerLabels :
              ~Listed(rc.entities, l) => ~Contains(call.out.val, Token(LabelText(l)))

\* the engine reported an ORG entity and the text came back as the engine got it
C12_Witness ==
    /\ Cleaned
    /\ \E k \in 1..Len(call.ents) : call.ents[k].label_ = "ORG"
    /\ \A k \in 1..Len(call.ents) : ~Listed(rc.entities, call.ents[k].label_)
    /\ call.out.val = call.nlp[1]

PHONE == <<"P", "H", "O", "N", "E">>

\* The digit run among the pieces of the resume texts that the PHONE rule matches
PhoneRun == <<"5", "5", "5", "1", "2", "3", "4", "5", "6", "7">>

\* The entity e covers a [PHONE] token of the text the engine was given
CoversPhone(text, e) ==
    \E p \in 0..(Len(text) - Len(Token(PHONE))) :
        /\ Slice(text, p, p + Len(Token(PHONE))) = Token(PHONE)
        /\ e.start_char <= p
        /\ p + Len(Token(PHONE)) <= e.end_char

\* C13: when the text holds a digit run of the shape of a phone number and
\* the engine reports a PERSON span over the place of that run, the output
\* of clean_resume shows the run replaced by [PHONE].
C13_PhoneShownInsidePerson ==
    (/\ Cleaned
     /\ Contains(arg.val, PhoneRun)
     /\ \E k \in 1..Len(call.ents) :
           /\ call.ents[k].label_ = "PERSON"
           /\ CoversPhone(call.nlp[1], call.ents[k]))
        => Contains(call.out.val, Token(PHONE))

-----------------------------------------------------------------------------
(* Properties of classify_resume: equal margins                            *)

\* C14: classes of equal margin are returned in the order of a stable
\* descending sort over classes_: of two returned labels with the same
\* margin, the one earlier in classes_ comes first, and a class left out does
\* not come before a returned class of the same margin in classes_.
C14_TiesInNativeOrder ==
    Classified =>
        LET res == call.out.val
        IN /\ \A i, j \in 1..Len(res) :
                 (i < j /\ MarginOf(res[i]) = MarginOf(res[j]))
                     => ClassIndex(res[i]) < ClassIndex(res[j])
           /\ \A c \in 1..n_classes, i \in 1..Len(res) :
                 ((\A j \in 1..Len(res) : res[j] # classes_[c])
                     /\ margins[c] = MarginOf(res[i]))
                     => ClassIndex(res[i]) < c

-----------------------------------------------------------------------------
(* Properties of clean_resume: whitespace, P.O. boxes, the order of rules  *)

\* C18: the text clean_resume returns neither begins nor ends with
\* whitespace and holds no two whitespace characters in a row.
C18_WhitespaceNormalised ==
    Cleaned =>
        LET o == call.out.val
        IN /\ o # <<>> => (o[1] \notin Space /\ o[Len(o)] \notin Space)
           /\ \A i \in 1..(Len(o) - 1) : ~(o[i] \in Space /\ o[i + 1] \in Space)

\* a text with whitespace at both ends came back with an entity replaced
C18_Witness ==
    /\ Cleaned
    /\ arg.val[1] \in Space
    /\ arg.val[Len(arg.val)] \in Space
    /\ Contains(call.out.val, Token(LabelText("PERSON")))

POBOX == <<"P", "O", "B", "O", "X">>

\* Post-office-box designations made of the pieces of the resume texts:
\* P.O. Box with five digits and with ten
PoBoxes ==
    {<<"P", ".", "O", ".", " ", "B", "o", "x", " ", "9", "0", "2", "1", "0">>,
     <<"P", ".", "O", ".", " ", "B", "o", "x", " ">> \o PhoneRun}

\* C19: whenever the text given to clean_resume holds P.O. Box and digits,
\* the text returned holds the token [POBOX] (stated for the calls in which
\* the engine finds no entity).
C19_PoBoxRedacted ==
    (Cleaned /\ call.ents = <<>>) =>
        \A b \in PoBoxes :
            Contains(arg.val, b) => Contains(call.out.val, Token(POBOX))

\* self.pii_patterns[name]
RuleNamed(name) ==
    pii_patterns[CHOOSE n \in 1..Len(pii_patterns) : pii_patterns[n].name = name]

\* self.pii_patterns[name].sub(f'[{name}]', text)
SubRule(name, text) == ReSub(RuleNamed(name), Token(RuleNamed(name).label), text)

\* The five substitutions on the stripped and collapsed text, each on what
\* the one before it returned: ADDRESS first, EMAIL last
DeclaredOrder(resume) ==
    SubRule("EMAIL",
      SubRule("POBOX",
        SubRule("ZIP",
          SubRule("PHONE",
            SubRule("ADDRESS", CollapseSpace(StripDisallowed(resume)))))))

\* DeclaredOrder of every resume text of the model, computed once
declared_order_of ==
    [a \in {x \in CleanArgs : x.type = "str"} |-> DeclaredOrder(a.val)]

\* C20: clean_resume runs the rules in the order ADDRESS, PHONE, ZIP, POBOX,
\* EMAIL, each on the text the one before it returned, and the instance holds
\* them in that order.
C20_RulesInDeclaredOrder ==
    /\ rc.made =>
          rc.pii_patterns = <<"ADDRESS", "PHONE", "ZIP", "POBOX", "EMAIL">>
    /\ Cleaned =>
          /\ call.steps = <<"strip", "collapse", "ADDRESS", "PHONE", "ZIP",
                            "POBOX", "EMAIL", "nlp", "entities">>
          /\ call.nlp = <<declared_order_of[arg]>>

\* a text on which the order tells: the ZIP rule took the digits the EMAIL
\* rule would have taken with the address
C20_Witness ==
    /\ Cleaned
    /\ Contains(arg.val, <<"1", "2", "3", "4", "5", "@", "a", "b", ".", "c", "o">>)
    /\ Contains(call.nlp[1], Token(<<"Z", "I", "P">>))
    /\ ~Contains(call.nlp[1], Token(EMAIL))

-----------------------------------------------------------------------------
(* Properties of SkillsExtractor.__init__                                  *)

\* nlp.pipe_names.count("sentencizer")
Sentencizers(pipe_names) ==
    Cardinality({n \in 1..Len(pipe_names) : pipe_names[n] = "sentencizer"})

\* The constructions made so far with the shared engine
OnShared == {n \in 1..Len(engine.built) : engine.built[n].on = "shared"}

\* C11: once a SkillsExtractor has been constructed with the engine, the
\* engine has exactly one sentencizer stage, however many constructions
\* follow; a construction puts the stage first when the engine has none and
\* leaves the pipeline as it is, raising nothing, when it has one.
C11_OneSentencizer ==
    /\ OnShared # {} => Sentencizers(engine.pipe_names) = 1
    /\ \A n \in OnShared :
          LET b == engine.built[n]
          IN /\ Sentencizers(b.after) = 1
             /\ has_pipe(b.before, "sentencizer") => b.after = b.before
             /\ ~has_pipe(b.before, "sentencizer")
                   => b.after = <<"sentencizer">> \o b.before
             /\ b.matcher \in {"given", "load"} => b.err = NoError

\* two constructions with one engine: the first installed the stage, the
\* second found it and raised nothing
C11_Witness ==
    /\ Len(engine.built) = 2
    /\ OnShared = {1, 2}
    /\ ~has_pipe(engine.built[1].before, "sentencizer")
    /\ engine.built[2].before = engine.built[1].after
    /\ engine.built[2].after = engine.built[2].before
    /\ engine.built[2].err = NoError
    /\ Len(engine.pipe_names) >= 2

-----------------------------------------------------------------------------
(* Properties of load_skills_map                                           *)

\* The member of the file that gives the name k its value: the last one
LastMember(members, k) ==
    members[CHOOSE i \in 1..Len(members) :
                /\ members[i][1] = k
                /\ \A j \in (i + 1)..Len(members) : members[j][1] # k]

\* C16: load_skills_map returns the mapping the file holds when the file is
\* there and is a JSON object (the members as they stand when no name
\* repeats), raises FileNotFoundError when the file is absent and the
\* parser's error when the file is not JSON, returning nothing in both.
C16_LoadSkillsMap ==
    call.op = "load_skills_map" =>
        LET f == arg.val
        IN /\ (f.open = "ok" /\ f.json = "object") =>
                 /\ call.err = NoError
                 /\ call.out.type = "dict"
                 /\ DictKeys(call.out.val) = {f.members[i][1] : i \in 1..Len(f.members)}
                 /\ \A k \in DictKeys(call.out.val) :
                       DictGet(call.out.val, k) = LastMember(f.members, k)[2]
                 /\ (\A i, j \in 1..Len(f.members) :
                        i # j => f.members[i][1] # f.members[j][1])
                       => call.out.val = f.members
           /\ f.open = "FileNotFoundError" =>
                 /\ call.err = Err("FileNotFoundError",
                                   "Skills map json was not found", 0)
                 /\ call.out = NoResult
           /\ (f.open = "ok" /\ f.json = "invalid") =>
                 /\ call.err.type = "JSONDecodeError"
                 /\ call.out = NoResult

\* the file was absent and the call raised, returning no mapping
C16_Witness ==
    /\ call.op = "load_skills_map"
    /\ arg.val.open = "FileNotFoundError"
    /\ call.err.type = "FileNotFoundError"
    /\ call.out = NoResult

-----------------------------------------------------------------------------
(* Properties of ResumeClassifier.__init__: dependencies passed in         *)

\* C17: a construction with model=, nlp_model= and embedding_model= given
\* objects already loaded succeeds, stores those objects as model, nlp and
\* embedder, and loads nothing.
C17_InjectedDependenciesStored ==
    (/\ call.op = "__init__"
     /\ {"model", "nlp_model", "embedding_model"} \subseteq arg.val
     /\ arg.val \subseteq {"model", "nlp_model", "embedding_model", "entities"})
        => /\ call.err = NoError
           /\ call.steps = <<>>
           /\ rc.model = "model"
           /\ rc.nlp = "nlp_model"
           /\ rc.embedder = "embedding_model"

-----------------------------------------------------------------------------
(* Properties of the /match route                                          *)

Served == call.op = "match" /\ call.err = NoError

\* C15: in a served request the text given to the embedder is the cleaned
\* text that extract_skills is given (stated for the requests in which the
\* engine finds no entity).
C15_SameCleanedText ==
    (Served /\ call.ents = <<>>) => call.encode = <<call.nlp[Len(call.nlp)]>>

-----------------------------------------------------------------------------
(* Properties of clean_resume: street numbers                              *)

ZIP == <<"Z", "I", "P">>

\* C21: the street number of a street address in the text given to
\* clean_resume is not tagged [ZIP] in the text returned, whatever the
\* length of the number.
C21_StreetNumberNotZip ==
    Cleaned =>
        \A a \in StreetAddresses :
            Contains(arg.val, a) => ~Contains(call.out.val, Token(ZIP) \o StreetName)

-----------------------------------------------------------------------------
(* Properties of clean_resume: the offsets of the entities                 *)

\* text from the offset from on, every listed entity from the k-th on
\* replaced by its token and everything else as it stands
RECURSIVE Simultaneous(_, _, _, _, _)
Simultaneous(entities, text, ents, k, from) ==
    IF k > Len(ents) THEN Slice(text, from, Len(text))
    ELSE Slice(text, from, ents[k].start_char)
            \o (IF Listed(entities, ents[k].label_)
                THEN Token(LabelText(ents[k].label_))
                ELSE Slice(text, ents[k].start_char, ents[k].end_char))
            \o Simultaneous(entities, text, ents, k + 1, ents[k].end_char)

\* C22: the engine is given the text the rules produced, and the text
\* returned is that text with every entity of a listed label replaced by its
\* token at once: what lies outside the entities stands as it was.
C22_OffsetStable ==
    Cleaned =>
        /\ call.nlp = <<RegexClean(arg.val)>>
        /\ call.out.val
              = Simultaneous(rc.entities, call.nlp[1], call.ents, 1, 0)

\* two names around a token of the rules were replaced, each by a token of
\* another length than the name
C22_Witness ==
    /\ Cleaned
    /\ Len(call.ents) = 2
    /\ \A k \in 1..2 :
          /\ call.ents[k].label_ = "PERSON"
          /\ call.ents[k].end_char - call.ents[k].start_char
                # Len(Token(LabelText("PERSON")))
    /\ Contains(call.nlp[1], Token(EMAIL))
    /\ call.nlp[1] # arg.val
    /\ Contains(call.out.val, Token(EMAIL))

-----------------------------------------------------------------------------
(* Properties of clean_resume: cleaning the cleaned text                   *)

\* C26: cleaning a cleaned text returns it as it is: when clean_resume is
\* called on the text the call before it returned and succeeds, it returns
\* that text (stated for the calls in which the engine finds no entity).
C26_CleanIdempotent ==
    [][(/\ Cleaned
        /\ call.ents = <<>>
        /\ arg' = call.out
        /\ call'.op = "clean_resume"
        /\ call'.err = NoError
        /\ call'.ents = <<>>) => call'.out = call.out]_vars

\* C27: the text clean_resume returns for a text it accepts is not empty
\* once trimmed.
C27_CleanedNotEmpty ==
    Cleaned => Strip(call.out.val) # <<>>

\* The labels clean_resume may put in a token: the names of the rules and
\* the labels of the allow-list
TokenLabels ==
    {pii_patterns[n].label : n \in 1..Len(pii_patterns)}
        \cup {LabelText(rc.entities[n]) : n \in 1..Len(rc.entities)}

\* The character at offset i of text lies in a token of one of the labels
InToken(text, i) ==
    \E l \in TokenLabels :
        \E p \in 0..(Len(text) - Len(Token(l))) :
            /\ p <= i
            /\ i < p + Len(Token(l))
            /\ Slice(text, p, p + Len(Token(l))) = Token(l)

-----------------------------------------------------------------------------
(* Properties of extract_skills: phrases that overlap                      *)

\* Two runs of tokens share a token
Overlap(r, q) == r[1] <= q[2] /\ q[1] <= r[2]

\* C29: when two phrases of the index match runs of tokens that overlap and
\* their lowercased surface forms differ, both forms are keys of the result;
\* the result has one key for each lowercased surface form matched.
C29_OverlappingBothReturned ==
    Extracted =>
        LET runs == PhraseRuns
            keys == DictKeys(call.out.val)
        IN /\ \A r, q \in runs :
                 (Overlap(r, q) /\ LowerStr(Surface(r)) # LowerStr(Surface(q)))
                     => /\ LowerStr(Surface(r)) \in keys
                        /\ LowerStr(Surface(q)) \in keys
           /\ Len(call.out.val) = Cardinality({LowerStr(Surface(r)) : r \in runs})

\* machine learning and the learning within it were both returned
C29_Witness ==
    /\ Extracted
    /\ \E r, q \in PhraseRuns :
          /\ r[1] < q[1]
          /\ q[2] = r[2]
          /\ LowerStr(Surface(q)) = <<"l", "e", "a", "r", "n", "i", "n", "g">>
          /\ LowerStr(Surface(r)) \in DictKeys(call.out.val)
          /\ LowerStr(Surface(q)) \in DictKeys(call.out.val)

-----------------------------------------------------------------------------
(* Properties of SkillsExtractor.__init__: constructions side by side      *)

\* C30: when the constructions that run side by side on one engine have all
\* ended, none has raised and the engine has exactly one sentencizer stage.
C30_ConcurrentInstallSafe ==
    (\A i \in 1..Len(threads) :
        threads[i].op = "SkillsExtractor" /\ threads[i].pc = "done")
        => /\ \A i \in 1..Len(threads) : threads[i].err = NoError
           /\ Sentencizers(engine.pipe_names) = 1

-----------------------------------------------------------------------------
(* Properties of the calls made side by side                               *)

\* C23: no step of a clean_resume or classify_resume, ending well or not,
\* changes the rules of the instance, their order, or its allow-list.
C23_InstanceFixed ==
    [][rc'.pii_patterns = rc.pii_patterns /\ rc'.entities = rc.entities]_vars

\* on an instance constructed with its own allow-list all calls have ended,
\* one returning and one raising, and the instance is as constructed
C23_Witness ==
    /\ \A i \in 1..Len(threads) : threads[i].pc = "done"
    /\ \E i, j \in 1..Len(threads) :
          /\ threads[i].op = "clean_resume" /\ threads[i].err = NoError
          /\ threads[j].op = "classify_resume" /\ threads[j].err # NoError
    /\ rc.entities = <<"ORG">>
    /\ rc.pii_patterns = RuleSteps

\* C24: a call in which a service raised has ended with the exception the
\* service raised, has returned nothing, and called that service once and no
\* service after it.
C24_FailurePropagates ==
    \A i \in 1..Len(threads) :
        LET t == threads[i]
        IN t.failed # NoFailure =>
              /\ t.pc = "done"
              /\ t.err = Err(t.failed.e, "", 0)
              /\ t.out = NoResult
              /\ t.used[Len(t.used)] = t.failed.at
              /\ Cardinality({n \in 1..Len(t.used) : t.used[n] = t.failed.at}) = 1

\* the ranking model raised in a classify_resume after the engine and the
\* embedder had answered
C24_Witness ==
    \E i \in 1..Len(threads) :
        /\ threads[i].op = "classify_resume"
        /\ threads[i].failed = Failure("decision_function", "MemoryError")
        /\ threads[i].used = <<"nlp", "encode", "decision_function">>
        /\ threads[i].err.type = "MemoryError"

\* What the call t on the instance self raises and returns when no call
\* runs beside it
Alone(self, t) ==
    LET pre == serve_pre_of[t.arg]
        cleaned == clean_post(self.entities, pre,
                              IF pre.err = NoError
                              THEN EngineEnts(ServeFinds, pre.text) ELSE <<>>)
    IN CASE t.op = "clean_resume" -> [err |-> cleaned.err, out |-> cleaned.out]
         [] t.op = "classify_resume" ->
              LET r == classify_resume(t.arg, t.top_k, cleaned, ServeMargins,
                                       CHOOSE s \in Argsorts(ServeMargins) : TRUE)
              IN [err |-> r.err, out |-> r.out]
         [] t.op = "extract_skills" ->
              [err |-> NoError,
               out |-> [type |-> "dict",
                        val |-> extract_skills(skills_map_keys, t.arg.val)]]

\* Alone of every request and instance of the model, computed once
alone_of == [r \in Requests |-> [self \in ServeInstances |-> Alone(self, r)]]

\* The request the call t serves
RequestOf(t) == [op |-> t.op, arg |-> t.arg, top_k |-> t.top_k]

\* C25: a call that has ended, no service having raised in it, has raised
\* or returned what it raises or returns when run alone, whatever the other
\* calls did in between its steps.
C25_SameResultAsAlone ==
    \A i \in 1..Len(threads) :
        (threads[i].pc = "done" /\ threads[i].failed = NoFailure)
            => /\ threads[i].err = alone_of[RequestOf(threads[i])][rc].err
               /\ threads[i].out = alone_of[RequestOf(threads[i])][rc].out

\* a call has returned its text while a call on another text is between
\* two of its steps
C25_Witness ==
    \E i, j \in 1..Len(threads) :
        /\ threads[i].pc = "done"
        /\ threads[i].op = "clean_resume"
        /\ threads[i].out.type = "str"
        /\ threads[j].pc \in {"nlp", "encode", "decide"}
        /\ threads[j].arg # threads[i].arg
        /\ threads[j].text # <<>>

=============================================================================
